---- MODULE Spec2Model ----
(***************************************************************************)
(* Single-user secret rotation handlers (MariaDB and PostgreSQL variants): *)
(* the four-step protocol of lambda_handler over a vault (staging labels   *)
(* and payloads) and a database (one password per account).  Every call a  *)
(* handler makes to the vault or to the database is one step of the        *)
(* invocation that makes it, so that the states between two calls of the   *)
(* same handler are states of the model.                                   *)
(***************************************************************************)
EXTENDS Integers, Sequences, FiniteSets, TLC

VARIABLES engine, rotation, stages, payload, dbPassword, inv

vars == <<engine, rotation, stages, payload, dbPassword, inv>>

(***************************************************************************)
(* The universe: versions, labels, accounts, passwords.                    *)
(***************************************************************************)
\* How many distinct passwords the vault's generator can hand out.
MaxRandom == 2

Engines == {"mariadb", "postgres"}
Workers == {"w1", "w2"}
\* Invocations of the sequential scheduler all run on one worker.
Sequential == {"w1"}

Versions == {"v0", "v1", "v2"}
Labels == {"AWSCURRENT", "AWSPENDING", "AWSPREVIOUS"}
StepNames == {"createSecret", "setSecret", "testSecret", "finishSecret", "deleteSecret"}

Hosts == {"db1", "db2"}
Users == {"app", "adm"}
Accounts == Hosts \X Users
\* Roles that may change another role's password (PostgreSQL ALTER ROLE).
Superusers == {"adm"}

\* Passwords are sequences of characters.
pOld == <<"o">>
pNew == <<"n">>
pPrev == <<"p">>
pOther == <<"x">>
pQuoted == <<"q", "'", "'", "q">>
RandomPasswords == {<<"r", ToString(i)>> : i \in 1..MaxRandom}

None == [none |-> TRUE]
NoConn == [slot |-> "none", host |-> "", user |-> ""]

(***************************************************************************)
(* Payloads (credential records): functions from field names to values.    *)
(* A field that the JSON object lacks is not in the DOMAIN.                *)
(***************************************************************************)
EngineTag(e) == IF e = "mariadb" THEN "mariadb" ELSE "postgres"

Credential(e, h, u, p) ==
    [engine |-> EngineTag(e), host |-> h, username |-> u, password |-> p]

With(d, k, v) == (k :> v) @@ [f \in (DOMAIN d \ {k}) |-> d[f]]
Without(d, k) == [f \in (DOMAIN d \ {k}) |-> d[f]]
Get(d, k, default) == IF k \in DOMAIN d THEN d[k] ELSE default

(***************************************************************************)
(* The vault, as the handlers consume it.                                  *)
(***************************************************************************)
\* describe_secret: the metadata the handlers read.  VersionIdsToStages
\* lists only the versions that hold a staging label.
describe_secret ==
    [RotationEnabled |-> rotation,
     VersionIdsToStages |-> [v \in {x \in Versions : stages[x] # {}} |-> stages[v]]]

\* get_secret_value: the payload of the version `token` if it holds `stage`
\* (token = "" : of the version that holds `stage`), else not found.
get_secret_value(stage, token) ==
    LET holders == {v \in DOMAIN payload :
                        /\ stage \in stages[v]
                        /\ token \in {"", v}}
    IN IF holders = {}
       THEN [err |-> "ResourceNotFoundException", dict |-> None]
       ELSE [err |-> "", dict |-> payload[CHOOSE v \in holders : TRUE]]

\* put_secret_value(token, dict, ['AWSPENDING']): stores the payload under
\* the token and attaches AWSPENDING to it (a label is on one version only).
\* A version that has a different payload already is not overwritten.
\* Variant: a version that has a payload is overwritten.
PutAllowed_Overwrite(token, dict) == TRUE

PutAllowed(token, dict) ==
    IF token \in DOMAIN payload THEN payload[token] = dict ELSE TRUE
\* Variant: the payload is also stored over the one of the AWSCURRENT version.
PutPayload_IntoCurrent(token, dict) ==
    [v \in DOMAIN payload \cup {token} |->
        IF v = token \/ "AWSCURRENT" \in stages[v] THEN dict ELSE payload[v]]

PutPayload(token, dict) == (token :> dict) @@ payload
\* Variant: the new payload is stored with the label AWSCURRENT.
PutStages_Current(token) ==
    [v \in Versions |-> IF v = token THEN stages[v] \cup {"AWSCURRENT"}
                        ELSE stages[v] \ {"AWSCURRENT"}]

PutStages(token) ==
    [v \in Versions |-> IF v = token THEN stages[v] \cup {"AWSPENDING"}
                        ELSE stages[v] \ {"AWSPENDING"}]

\* update_secret_version_stage(stage, MoveToVersionId, RemoveFromVersionId):
\* one atomic label move.  The vault refuses a move when the label is on a
\* version other than RemoveFromVersionId; moving AWSCURRENT leaves
\* AWSPREVIOUS on the version it was removed from.
\* Variant: the label stays on the version it is moved from.
MoveStages_KeepOld(stage, to, from) ==
    [v \in Versions |-> IF v = to THEN stages[v] \cup {stage} ELSE stages[v]]

Holder(stage) == {v \in Versions : stage \in stages[v]}
MoveAllowed(stage, to, from) ==
    /\ Holder(stage) \subseteq {to, from}
    /\ from # "" => stage \in stages[from]
MoveStages(stage, to, from) ==
    LET demote == stage = "AWSCURRENT" /\ from # "" /\ from # to
    IN [v \in Versions |->
          IF v = to THEN (stages[v] \cup {stage}) \ (IF demote THEN {"AWSPREVIOUS"} ELSE {})
          ELSE IF v = from
               THEN (stages[v] \ {stage}) \cup (IF demote THEN {"AWSPREVIOUS"} ELSE {})
               ELSE stages[v] \ (IF demote THEN {"AWSPREVIOUS"} ELSE {})]
RemoveAllowed(stage, from) == stage \in stages[from]
RemoveStages(stage, from) == [stages EXCEPT ![from] = @ \ {stage}]

(***************************************************************************)
(* get_secret_dict: fetch and validate a payload.                          *)
(***************************************************************************)
SupportedEngines(e) ==
    IF e = "mariadb" THEN {"mariadb"}
    ELSE {"postgres", "aurora-postgresql", "postgresql"}
RequiredFields == {"host", "username", "password"}

ValidDict(e, d) ==
    /\ "engine" \in DOMAIN d
    /\ d["engine"] \in SupportedEngines(e)
    /\ RequiredFields \subseteq DOMAIN d

get_secret_dict(stage, token) ==
    LET secret == get_secret_value(stage, token)
    IN IF secret.err # "" THEN secret
       ELSE IF ~ValidDict(engine, secret.dict) THEN [err |-> "KeyError", dict |-> None]
       ELSE secret

(***************************************************************************)
(* generate_connection_string: the connection string as the sequence of    *)
(* its pieces; the password is encoded character by character.             *)
(***************************************************************************)
\* urllib.parse.quote_plus on the characters passwords are made of.
QuotePlusChar(c) ==
    IF c = " " THEN <<"+">>
    ELSE IF c = "'" THEN <<"%", "2", "7">>
    ELSE <<c>>

RECURSIVE quote_plus(_)
quote_plus(s) ==
    IF s = <<>> THEN <<>> ELSE QuotePlusChar(Head(s)) \o quote_plus(Tail(s))

Unsupported == <<"(connection string type not supported)">>
\* The connection_string_type values the formatter knows.
SupportedTypes == {"jdbc", "dotnet", "odbc", "gopq", "node-pg", "psycopg", "rustpg"}

generate_connection_string(e, d, new_password) ==
    LET type == Get(d, "connection_string_type", "None")
        enc == quote_plus(new_password)
        raw == IF e = "mariadb" THEN enc ELSE new_password
        port == Get(d, "port", "5432")
        dbname == Get(d, "dbname", "None")
        sslmode == Get(d, "sslmode", "None")
        schema == Get(d, "schema", "public")
        uri(scheme) == <<scheme, d["username"], ":">> \o enc
                        \o <<"@", d["host"], ":", port, "/", dbname,
                             "?sslmode=", sslmode, "&schema=", schema>>
    IN CASE type = "jdbc" ->
              <<"jdbc:postgresql://", d["host"], ":", port, "/", dbname,
                "?", "user=", d["username"], "&", "password=">> \o enc
              \o (IF e = "mariadb" THEN <<"ssl=true">> ELSE <<"&", "ssl=true">>)
              \o <<"&", "sslmode=", sslmode, "&", "schema=", schema>>
         [] type = "dotnet" ->
              <<"Host=", d["host"], ";Port=", port, ";Database=", dbname,
                ";Username=", d["username"], ";Password=">> \o raw
              \o <<";SSL Mode=", sslmode, ";Search Path=", schema, ";">>
         [] type = "odbc" ->
              <<"Driver={PostgreSQL ODBC Driver(UNICODE)};Server=", d["host"],
                ";Port=", port, ";Database=", dbname, ";UID=", d["username"],
                ";PWD=">> \o raw \o <<";sslmode=", sslmode, ";schema=", schema>>
         [] type = "gopq" -> uri("postgres://")
         [] type \in {"node-pg", "psycopg", "rustpg"} -> uri("postgressql://")
         [] OTHER -> Unsupported

(***************************************************************************)
(* An invocation: the position and the local variables of one run of       *)
(* lambda_handler, and what it did so far (log, opened).                   *)
(***************************************************************************)
Event(op, slot, how, res, host, user) ==
    [op |-> op, slot |-> slot, how |-> how, res |-> res, host |-> host, user |-> user]
VaultEvent(op, res) == Event(op, "", "", res, "", "")
DbEvent(op, res) == Event(op, "", "", res, "", "")

Idle ==
    [pc |-> "idle", step |-> "", token |-> "", again |-> FALSE,
     versions |-> <<>>, before |-> None, handler |-> "none",
     previous_dict |-> None, current_dict |-> None, pending_dict |-> None,
     random_pass |-> <<>>, current_version |-> "",
     cred |-> None, slot |-> "", ret |-> "", conn |-> NoConn, tx |-> <<>>,
     opened |-> 0, log |-> <<>>, result |-> "", chain |-> 0, lines |-> <<>>,
     fetched |-> <<>>]

Return(r) == [r EXCEPT !.pc = "done", !.result = "ok"]
Raise(r, err) == [r EXCEPT !.pc = "done", !.result = err]
Goto(r, pc) == [r EXCEPT !.pc = pc]
Logged(r, ev) == [r EXCEPT !.log = Append(@, ev)]
\* A call of get_secret_dict by the invocation and how it ended.
Fetched(r, stage, err) == [r EXCEPT !.fetched = Append(@, [stage |-> stage, err |-> err])]
Set(w, r) == inv' = [inv EXCEPT ![w] = r]

\* logger.info / logger.error with values taken from a payload: the line is
\* recorded as its message and the values formatted into it.  (Lines that
\* show only the secret's ARN, the token or the step are not recorded.)
Said(r, line) == [r EXCEPT !.lines = Append(@, line)]

VaultUnchanged == UNCHANGED <<engine, rotation, stages, payload>>
WorldUnchanged == UNCHANGED <<engine, rotation, stages, payload, dbPassword>>

(***************************************************************************)
(* lambda_handler: the staging guard and the dispatch.                     *)
(***************************************************************************)
\* Variants of the staging guard with one check lost or misplaced.
StagingGuard_NoShortCircuit(metadata, token) ==
    LET versions == metadata.VersionIdsToStages
    IN IF metadata.RotationEnabled = "false" THEN "disabled"
       ELSE IF token \notin DOMAIN versions THEN "unstaged"
       ELSE IF "AWSPENDING" \notin versions[token] THEN "notpending"
       ELSE "dispatch"

StagingGuard_NoPendingCheck(metadata, token) ==
    LET versions == metadata.VersionIdsToStages
    IN IF metadata.RotationEnabled = "false" THEN "disabled"
       ELSE IF token \notin DOMAIN versions THEN "unstaged"
       ELSE IF "AWSCURRENT" \in versions[token] THEN "current"
       ELSE "dispatch"

StagingGuard_PendingFirst(metadata, token) ==
    LET versions == metadata.VersionIdsToStages
    IN IF metadata.RotationEnabled = "false" THEN "disabled"
       ELSE IF token \notin DOMAIN versions THEN "unstaged"
       ELSE IF "AWSPENDING" \notin versions[token] THEN "notpending"
       ELSE IF "AWSCURRENT" \in versions[token] THEN "current"
       ELSE "dispatch"

StagingGuard_CurrentBeforeDisabled(metadata, token) ==
    LET versions == metadata.VersionIdsToStages
    IN IF token \in DOMAIN versions /\ "AWSCURRENT" \in versions[token] THEN "current"
       ELSE IF metadata.RotationEnabled = "false" THEN "disabled"
       ELSE IF token \notin DOMAIN versions THEN "unstaged"
       ELSE IF "AWSPENDING" \notin versions[token] THEN "notpending"
       ELSE "dispatch"

\* Lines "Make sure the version is staged correctly".
StagingGuard(metadata, token) ==
    LET versions == metadata.VersionIdsToStages
    IN IF metadata.RotationEnabled = "false" THEN "disabled"
       ELSE IF token \notin DOMAIN versions THEN "unstaged"
       ELSE IF "AWSCURRENT" \in versions[token] THEN "current"
       ELSE IF "AWSPENDING" \notin versions[token] THEN "notpending"
       ELSE "dispatch"

\* Variant: a step name that is not known is taken as finishSecret.
Dispatch_DefaultFinish(e, step) ==
    CASE step = "createSecret" -> [handler |-> "create_secret", pc |-> "create_get_current"]
      [] step = "setSecret" ->
            [handler |-> "set_secret",
             pc |-> IF e = "mariadb" THEN "set_get_previous" ELSE "set_get_pending"]
      [] step = "testSecret" -> [handler |-> "test_secret", pc |-> "test_get_pending"]
      [] OTHER -> [handler |-> "finish_secret", pc |-> "finish_describe"]

\* Lines "Call the appropriate step": the handler and where it starts.
Dispatch(e, step) ==
    CASE step = "createSecret" -> [handler |-> "create_secret", pc |-> "create_get_current"]
      [] step = "setSecret" ->
            [handler |-> "set_secret",
             pc |-> IF e = "mariadb" THEN "set_get_previous" ELSE "set_get_pending"]
      [] step = "testSecret" -> [handler |-> "test_secret", pc |-> "test_get_pending"]
      [] step = "finishSecret" -> [handler |-> "finish_secret", pc |-> "finish_describe"]
      [] OTHER -> [handler |-> "none", pc |-> "done"]

\* The order in which the rotation scheduler invokes the steps.
ProtocolOrder == <<"createSecret", "setSecret", "testSecret", "finishSecret">>

\* A rotation starts clean: the live password is the AWSCURRENT one and the
\* token is staged AWSPENDING with no payload yet.
CleanStart(token) ==
    LET cur == get_secret_value("AWSCURRENT", "")
    IN /\ stages[token] = {"AWSPENDING"}
       /\ token \notin DOMAIN payload
       /\ IF cur.err = "" /\ RequiredFields \subseteq DOMAIN cur.dict
          THEN /\ <<cur.dict["host"], cur.dict["username"]>> \in Accounts
               /\ dbPassword[<<cur.dict["host"], cur.dict["username"]>>]
                     = cur.dict["password"]
          ELSE FALSE

\* How many steps of one rotation, this one included, were invoked in
\* protocol order from a clean start, each right after the success of the
\* one before (0: this invocation is not part of such a run).
Chain(last, token, step) ==
    IF step = ProtocolOrder[1]
    THEN IF CleanStart(token) THEN 1 ELSE 0
    ELSE IF /\ last.pc = "done" /\ last.result = "ok" /\ last.token = token
            /\ last.chain \in 1..(Len(ProtocolOrder) - 1)
            /\ step = ProtocolOrder[last.chain + 1]
         THEN last.chain + 1
         ELSE 0

\* lambda_handler(event, context) with event['ClientRequestToken'] = token
\* and event['Step'] = step.
Invoke(w, token, step) ==
    /\ inv[w].pc \in {"idle", "done"}
    /\ LET metadata == describe_secret
           guard == StagingGuard(metadata, token)
           target == Dispatch(engine, step)
           start == [Idle EXCEPT
                       !.step = step, !.token = token,
                       !.versions = metadata.VersionIdsToStages,
                       !.before = Get(payload, token, None),
                       !.chain = Chain(inv[w], token, step),
                       !.again = /\ inv[w].pc = "done"
                                 /\ inv[w].result = "ok"
                                 /\ inv[w].step = step
                                 /\ inv[w].token = token]
       IN Set(w, CASE guard = "current" -> Return(start)
                   [] guard = "dispatch" /\ target.handler # "none" ->
                         [start EXCEPT !.handler = target.handler, !.pc = target.pc]
                   [] OTHER -> Raise(start, "ValueError"))
    /\ WorldUnchanged

lambda_handler(w) ==
    \E token \in Versions, step \in StepNames : Invoke(w, token, step)

(***************************************************************************)
(* create_secret                                                           *)
(***************************************************************************)
create_get_current(w) ==
    /\ inv[w].pc = "create_get_current"
    /\ LET r == get_secret_dict("AWSCURRENT", "")
           me == Fetched(inv[w], "AWSCURRENT", r.err)
       IN Set(w, IF r.err # "" THEN Raise(me, r.err)
                 ELSE [me EXCEPT !.current_dict = r.dict, !.pc = "create_get_pending"])
    /\ WorldUnchanged

\* Variant: a payload that exists is generated again.
CreateBranch_Regenerate(err) ==
    IF err \in {"", "ResourceNotFoundException"} THEN "generate" ELSE "raise"

\* Variant: every failed fetch of AWSPENDING leads to a new password.
CreateBranch_AnyFailure(err) ==
    IF err = "" THEN "exists" ELSE "generate"

\* What create_secret does with the outcome of fetching AWSPENDING.
CreateBranch(err) ==
    IF err = "" THEN "exists"
    ELSE IF err = "ResourceNotFoundException" THEN "generate"
    ELSE "raise"

create_get_pending(w) ==
    /\ inv[w].pc = "create_get_pending"
    /\ LET r == get_secret_dict("AWSPENDING", inv[w].token)
           me == Fetched(inv[w], "AWSPENDING", r.err)
           branch == CreateBranch(r.err)
       IN Set(w, CASE branch = "exists" -> Return(me)
                   [] branch = "generate" -> Goto(me, "create_random")
                   [] OTHER -> Raise(me, r.err))
    /\ WorldUnchanged

\* Variant: the connection string of the template is kept as it is.
NewPending_StaleString(e, current_dict, random_pass) ==
    With(current_dict, "password", random_pass)

\* Variant: a connection string that cannot be formatted is dropped.
NewPending_DropUnsupported(e, current_dict, random_pass) ==
    LET d == With(current_dict, "password", random_pass)
    IN IF "connection_string" \notin DOMAIN d THEN d
       ELSE IF generate_connection_string(e, d, random_pass) = Unsupported
            THEN Without(d, "connection_string")
            ELSE With(d, "connection_string", generate_connection_string(e, d, random_pass))

\* The payload create_secret builds from the template and the new password.
NewPending(e, current_dict, random_pass) ==
    LET d == With(current_dict, "password", random_pass)
    IN IF "connection_string" \in DOMAIN d
       THEN With(d, "connection_string", generate_connection_string(e, d, random_pass))
       ELSE d

create_random(w) ==
    /\ inv[w].pc = "create_random"
    /\ \E p \in RandomPasswords :
         LET made == Logged([inv[w] EXCEPT
                               !.random_pass = p,
                               !.current_dict = NewPending(engine, inv[w].current_dict, p),
                               !.pc = "create_put"],
                            VaultEvent("get_random_password", "ok"))
         IN Set(w, IF "connection_string" \in DOMAIN inv[w].current_dict
                   THEN Said(made, [msg |-> "Generating connection string for secret",
                                    connection_string_type |->
                                        Get(inv[w].current_dict, "connection_string_type", "None")])
                   ELSE made)
    /\ WorldUnchanged

create_put(w) ==
    /\ inv[w].pc = "create_put"
    /\ \/ /\ PutAllowed(inv[w].token, inv[w].current_dict)
          /\ payload' = PutPayload(inv[w].token, inv[w].current_dict)
          /\ stages' = PutStages(inv[w].token)
          /\ Set(w, Return(Logged(inv[w], VaultEvent("put_secret_value", "ok"))))
       \/ /\ UNCHANGED <<payload, stages>>
          /\ Set(w, Raise(Logged(inv[w], VaultEvent("put_secret_value", "fail")),
                          "ClientError"))
    /\ UNCHANGED <<engine, rotation, dbPassword>>

(***************************************************************************)
(* The database and the connection resolver.                               *)
(***************************************************************************)
\* A login succeeds only with the account's live password.
CanLogin(d) ==
    /\ <<d["host"], d["username"]>> \in Accounts
    /\ dbPassword[<<d["host"], d["username"]>>] = d["password"]

\* The values of the ssl field: booleans ("b:"), strings ("s:"), others.
SslBooleans == {"b:true", "b:false"}
SslStrings == {"s:true", "s:TRUE", "s:false", "s:False", "s:yes"}
\* Any other value ("i:1": a number) is of neither type.
\* str.lower() of the string values.
Lower(v) ==
    CASE v \in {"s:true", "s:TRUE"} -> "true"
      [] v \in {"s:false", "s:False"} -> "false"
      [] OTHER -> "other"

get_ssl_config(d) ==
    IF "ssl" \notin DOMAIN d THEN [use_ssl |-> TRUE, fall_back |-> TRUE]
    ELSE IF d["ssl"] \in SslBooleans
         THEN [use_ssl |-> d["ssl"] = "b:true", fall_back |-> FALSE]
    ELSE IF d["ssl"] \in SslStrings
         THEN IF Lower(d["ssl"]) = "true" THEN [use_ssl |-> TRUE, fall_back |-> FALSE]
              ELSE IF Lower(d["ssl"]) = "false" THEN [use_ssl |-> FALSE, fall_back |-> FALSE]
              ELSE [use_ssl |-> TRUE, fall_back |-> TRUE]
    ELSE [use_ssl |-> TRUE, fall_back |-> TRUE]

\* Variant: a second attempt follows every failed first one.
FirstAttempt_AlwaysFallBack(e, d) ==
    [how |-> IF e # "mariadb" THEN Get(d, "sslmode", "prefer")
             ELSE IF get_ssl_config(d).use_ssl THEN "ssl" ELSE "plain",
     fall_back |-> TRUE]

\* The transport of the first attempt and whether a second one may follow.
FirstAttempt(e, d) ==
    IF e = "mariadb"
    THEN [how |-> IF get_ssl_config(d).use_ssl THEN "ssl" ELSE "plain",
          fall_back |-> get_ssl_config(d).fall_back]
    ELSE [how |-> Get(d, "sslmode", "prefer"), fall_back |-> FALSE]

\* What one driver call does on the wire.  "ssl": encrypted only; "plain":
\* unencrypted only; sslmode "prefer" (libpq): encrypted first, and
\* unencrypted in the same call when the encrypted handshake fails.
TriesEncrypted(how) == how \in {"ssl", "prefer", "require"}
TriesPlain(how) == how \in {"plain", "prefer", "disable", "allow"}

\* A step calls get_connection(d): the resolver runs and comes back at `ret`.
Connect(r, slot, d, ret) ==
    [r EXCEPT !.cred = d, !.slot = slot, !.ret = ret, !.pc = "get_connection"]

\* redact_secret_dict (PostgreSQL): a copy with the password replaced.
redact_secret_dict(secret_dict) == With(secret_dict, "password", <<"REDACTED">>)

\* MariaDB logs each session it established, PostgreSQL each credential
\* record that failed to connect.
Opened(r, how) ==
    LET got == Logged([r EXCEPT !.conn = [slot |-> r.slot, host |-> r.cred["host"],
                                          user |-> r.cred["username"]],
                                !.opened = @ + 1, !.pc = r.ret],
                      Event("connect", r.slot, how, "ok", r.cred["host"], r.cred["username"]))
    IN IF engine = "mariadb"
       THEN Said(got, [msg |-> "Successfully established connection", how |-> how,
                       username |-> r.cred["username"], host |-> r.cred["host"]])
       ELSE got

Refused(r, how, next) ==
    LET got == Logged([r EXCEPT !.conn = NoConn, !.pc = next],
                      Event("connect", r.slot, how, "fail", r.cred["host"], r.cred["username"]))
    IN IF engine = "mariadb" THEN got
       ELSE Said(got, With(redact_secret_dict(r.cred), "msg",
                           "Unable to connect to database with secret dictionary"))

Close(r) ==
    Logged([r EXCEPT !.conn = NoConn, !.opened = @ - 1],
           Event("close", r.conn.slot, "", "ok", r.conn.host, r.conn.user))

\* connect_and_authenticate: one attempt; it may fail whatever the credential.
connect_and_authenticate(w, how, onfail) ==
    \/ /\ CanLogin(inv[w].cred)
       /\ Set(w, Opened(inv[w], how))
    \/ Set(w, Refused(inv[w], how, onfail))

get_connection(w) ==
    /\ inv[w].pc = "get_connection"
    /\ LET first == FirstAttempt(engine, inv[w].cred)
       IN connect_and_authenticate(w, first.how,
              IF first.fall_back THEN "connect_fallback" ELSE inv[w].ret)
    /\ WorldUnchanged

connect_fallback(w) ==
    /\ inv[w].pc = "connect_fallback"
    /\ connect_and_authenticate(w, "plain", inv[w].ret)
    /\ WorldUnchanged

IsOpen(conn) == conn # NoConn

(***************************************************************************)
(* set_secret                                                              *)
(***************************************************************************)
\* How set_secret treats a failed fetch of AWSPREVIOUS.
PreviousAbsent(e, err) ==
    IF e = "mariadb" THEN err \in {"ResourceNotFoundException", "KeyError"}
    ELSE err = "ResourceNotFoundException"

set_get_previous(w) ==
    /\ inv[w].pc = "set_get_previous"
    /\ LET r == get_secret_dict("AWSPREVIOUS", "")
           me == Fetched(inv[w], "AWSPREVIOUS", r.err)
       IN Set(w, IF engine = "mariadb"
                 THEN [me EXCEPT
                         !.previous_dict = IF PreviousAbsent(engine, r.err) THEN None
                                           ELSE r.dict,
                         !.pc = "set_get_current"]
                 ELSE IF r.err = ""
                      THEN Connect([me EXCEPT !.previous_dict = r.dict],
                                   "AWSPREVIOUS", r.dict, "set_after_previous")
                      ELSE IF PreviousAbsent(engine, r.err)
                           THEN Goto(me, "set_after_previous")
                           ELSE Raise(me, r.err))
    /\ WorldUnchanged

set_get_current(w) ==
    /\ inv[w].pc = "set_get_current"
    /\ LET r == get_secret_dict("AWSCURRENT", "")
           me == Fetched(inv[w], "AWSCURRENT", r.err)
           got == [me EXCEPT !.current_dict = r.dict]
       IN Set(w, IF r.err # "" THEN Raise(me, r.err)
                 ELSE IF engine = "mariadb" THEN Goto(got, "set_get_pending")
                 ELSE Connect(got, "AWSCURRENT", r.dict, "set_after_current"))
    /\ WorldUnchanged

set_get_pending(w) ==
    /\ inv[w].pc = "set_get_pending"
    /\ LET r == get_secret_dict("AWSPENDING", inv[w].token)
           me == Fetched(inv[w], "AWSPENDING", r.err)
       IN Set(w, IF r.err # "" THEN Raise(me, r.err)
                 ELSE Connect([me EXCEPT !.pending_dict = r.dict],
                              "AWSPENDING", r.dict, "set_after_pending"))
    /\ WorldUnchanged

\* "Make sure the user (and the host) from current and pending match":
\* the MariaDB variant checks, the PostgreSQL variant has no such lines.
SameAccount(e, other_dict, pending_dict) ==
    \/ e # "mariadb"
    \/ /\ other_dict["username"] = pending_dict["username"]
       /\ other_dict["host"] = pending_dict["host"]

\* Variant: the session opened with AWSPENDING does not end the step.
AfterPending_NoReturn(e, conn, current_dict, pending_dict) ==
    IF e # "mariadb" THEN "fetch_current"
    ELSE IF ~SameAccount(e, current_dict, pending_dict) THEN "raise"
    ELSE "try_current"

\* After the attempt with AWSPENDING: return when it opened a session,
\* else validate (MariaDB) and go on with AWSCURRENT.
AfterPending(e, conn, current_dict, pending_dict) ==
    IF IsOpen(conn) THEN "return"
    ELSE IF e # "mariadb" THEN "fetch_current"
    ELSE IF ~SameAccount(e, current_dict, pending_dict) THEN "raise"
    ELSE "try_current"

set_after_pending(w) ==
    /\ inv[w].pc = "set_after_pending"
    /\ LET next == AfterPending(engine, inv[w].conn, inv[w].current_dict,
                                inv[w].pending_dict)
       IN Set(w, CASE next = "return" -> Return(Close(inv[w]))
                   [] next = "fetch_current" -> Goto(inv[w], "set_get_current")
                   [] next = "raise" ->
                         Raise(Said(inv[w], [msg |-> "Attempting to modify user other than current",
                                             username |-> inv[w].pending_dict["username"],
                                             host |-> inv[w].pending_dict["host"]]),
                               "ValueError")
                   [] OTHER -> Connect(inv[w], "AWSCURRENT", inv[w].current_dict,
                                       "set_after_current"))
    /\ WorldUnchanged

\* Variant: the previous payload is tried with its own ssl setting.
InheritSsl_Own(previous_dict, current_dict) == previous_dict

\* "Update previous_dict to leverage current SSL settings" (MariaDB).
InheritSsl(previous_dict, current_dict) ==
    IF "ssl" \in DOMAIN current_dict
    THEN With(previous_dict, "ssl", current_dict["ssl"])
    ELSE Without(previous_dict, "ssl")

\* Variant: a failed attempt with AWSCURRENT ends the step at once.
AfterCurrent_GiveUp(e, conn, previous_dict) ==
    IF IsOpen(conn) THEN "execute" ELSE "raise"

\* Variant: AWSPREVIOUS is tried whether or not AWSCURRENT opened a session.
AfterCurrent_AlwaysPrevious(e, conn, previous_dict) ==
    IF e # "mariadb" THEN "fetch_previous"
    ELSE IF previous_dict # None THEN "try_previous"
    ELSE IF IsOpen(conn) THEN "execute"
    ELSE "raise"

\* After the attempt with AWSCURRENT: AWSPREVIOUS is tried only when it
\* failed (MariaDB: and a previous payload was fetched).
AfterCurrent(e, conn, previous_dict) ==
    IF IsOpen(conn) THEN "execute"
    ELSE IF e # "mariadb" THEN "fetch_previous"
    ELSE IF previous_dict # None THEN "try_previous"
    ELSE "raise"

set_after_current(w) ==
    /\ inv[w].pc = "set_after_current"
    /\ LET next == AfterCurrent(engine, inv[w].conn, inv[w].previous_dict)
           prev == InheritSsl(inv[w].previous_dict, inv[w].current_dict)
       IN Set(w, CASE next = "execute" -> Goto(inv[w], "set_execute")
                   [] next = "fetch_previous" -> Goto(inv[w], "set_get_previous")
                   [] next = "try_previous" ->
                         Connect([inv[w] EXCEPT !.previous_dict = prev],
                                 "AWSPREVIOUS", prev, "set_after_previous")
                   [] OTHER -> Raise(inv[w], "ValueError"))
    /\ WorldUnchanged

\* After the attempt with AWSPREVIOUS: the MariaDB variant validates the
\* account first and raises with the session still open.
AfterPrevious(e, conn, previous_dict, pending_dict) ==
    IF previous_dict # None /\ ~SameAccount(e, previous_dict, pending_dict)
    THEN "raise_open"
    ELSE IF ~IsOpen(conn) THEN "raise"
    ELSE "execute"

set_after_previous(w) ==
    /\ inv[w].pc = "set_after_previous"
    /\ LET next == AfterPrevious(engine, inv[w].conn, inv[w].previous_dict,
                                 inv[w].pending_dict)
       IN Set(w, CASE next = "execute" -> Goto(inv[w], "set_execute")
                   [] next = "raise_open" ->
                         Raise(Said(inv[w], [msg |-> "Attempting to modify user other than last valid",
                                             username |-> inv[w].pending_dict["username"],
                                             host |-> inv[w].pending_dict["host"]]),
                               "ValueError")
                   [] OTHER -> Raise(inv[w], "ValueError"))
    /\ WorldUnchanged

\* What the server reads from the literal '<password>' that the PostgreSQL
\* variant builds by string interpolation: '' is one quote, a single quote
\* ends the literal, and text left after it is a syntax error.
RECURSIVE PgScan(_, _)
PgScan(text, acc) ==
    IF text = <<>> THEN [ok |-> FALSE, value |-> acc]
    ELSE IF Head(text) # "'" THEN PgScan(Tail(text), Append(acc, Head(text)))
    ELSE IF Len(text) >= 2 /\ text[2] = "'"
         THEN PgScan(Tail(Tail(text)), Append(acc, "'"))
    ELSE [ok |-> Tail(text) = <<>>, value |-> acc]

PgLiteral(password) == PgScan(Append(password, "'"), <<>>)

\* Variant: the server stores only the first character of the password.
Statement_Truncated(e, conn, pending_dict) ==
    [ok |-> TRUE, account |-> <<conn.host, pending_dict["username"]>>,
     password |-> SubSeq(pending_dict["password"], 1, 1)]

\* The password-change statement over the session `conn`: whether the
\* server accepts it, the account it changes and the password it sets.
\* MariaDB: SET PASSWORD = PASSWORD(%s) changes the session's own account.
\* PostgreSQL: ALTER ROLE <pending username> WITH ENCRYPTED PASSWORD '<password>'.
Statement(e, conn, pending_dict) ==
    IF e = "mariadb"
    THEN [ok |-> TRUE, account |-> <<conn.host, conn.user>>,
          password |-> pending_dict["password"]]
    ELSE [ok |-> /\ PgLiteral(pending_dict["password"]).ok
                 /\ <<conn.host, pending_dict["username"]>> \in Accounts
                 /\ conn.user = pending_dict["username"] \/ conn.user \in Superusers,
          account |-> <<conn.host, pending_dict["username"]>>,
          password |-> PgLiteral(pending_dict["password"]).value]

\* SET PASSWORD takes effect when executed; ALTER ROLE when committed.
Transactional(e) == e # "mariadb"

Executed(r, res) ==
    Logged(r, Event("execute", r.conn.slot, "", res, r.conn.host, r.conn.user))

set_execute(w) ==
    /\ inv[w].pc = "set_execute"
    /\ LET stmt == Statement(engine, inv[w].conn, inv[w].pending_dict)
       IN \/ /\ stmt.ok
             /\ Set(w, [Executed(inv[w], "ok") EXCEPT
                          !.tx = <<stmt>>, !.pc = "set_commit"])
             /\ dbPassword' = IF Transactional(engine) THEN dbPassword
                              ELSE [dbPassword EXCEPT ![stmt.account] = stmt.password]
          \/ /\ Set(w, Raise(Close(Executed(inv[w], "fail")), "DatabaseError"))
             /\ UNCHANGED dbPassword
    /\ VaultUnchanged

set_commit(w) ==
    /\ inv[w].pc = "set_commit"
    /\ LET stmt == inv[w].tx[1]
       IN \/ /\ Set(w, Return(Close(Said(Logged(inv[w], DbEvent("commit", "ok")),
                                          [msg |-> "Successfully set password for user",
                                           username |-> inv[w].pending_dict["username"]]))))
             /\ dbPassword' = [dbPassword EXCEPT ![stmt.account] = stmt.password]
          \/ /\ Set(w, Raise(Close(Logged(inv[w], DbEvent("commit", "fail"))),
                             "DatabaseError"))
             /\ UNCHANGED dbPassword
    /\ VaultUnchanged

(***************************************************************************)
(* set_secret as a whole, for the variant `e`, as a function of the vault  *)
(* and of how the database answers: works[slot] tells whether the login    *)
(* with the payload of that slot opens a session, stmtOk whether the       *)
(* password change goes through.  The result, the slots tried in order and *)
(* the slot whose session the statement was executed over.                 *)
(***************************************************************************)
Slots == {"AWSPENDING", "AWSCURRENT", "AWSPREVIOUS"}

SetOutcome(result, tried, over) == [result |-> result, tried |-> tried, over |-> over]

Session(works, slot, d) ==
    IF works[slot] THEN [slot |-> slot, host |-> d["host"], user |-> d["username"]]
    ELSE NoConn

SetExecute(stmtOk, tried, conn) ==
    IF stmtOk THEN SetOutcome("ok", tried, conn.slot)
    ELSE SetOutcome("DatabaseError", tried, conn.slot)

SetFromPrevious(e, works, stmtOk, tried, previous_dict, pending_dict) ==
    LET conn == IF previous_dict = None THEN NoConn
                ELSE Session(works, "AWSPREVIOUS", previous_dict)
    IN IF AfterPrevious(e, conn, previous_dict, pending_dict) = "execute"
       THEN SetExecute(stmtOk, tried, conn)
       ELSE SetOutcome("ValueError", tried, "")

SetFromCurrent(e, works, stmtOk, previous, current_dict, pending_dict) ==
    LET conn == Session(works, "AWSCURRENT", current_dict)
        tried == <<"AWSPENDING", "AWSCURRENT">>
        known == IF e = "mariadb" /\ ~PreviousAbsent(e, previous.err)
                 THEN previous.dict ELSE None
        next == AfterCurrent(e, conn, known)
    IN CASE next = "execute" -> SetExecute(stmtOk, tried, conn)
         [] next = "try_previous" ->
               SetFromPrevious(e, works, stmtOk, Append(tried, "AWSPREVIOUS"),
                               InheritSsl(known, current_dict), pending_dict)
         [] next = "fetch_previous" ->
               IF previous.err = ""
               THEN SetFromPrevious(e, works, stmtOk, Append(tried, "AWSPREVIOUS"),
                                    previous.dict, pending_dict)
               ELSE IF PreviousAbsent(e, previous.err)
                    THEN SetFromPrevious(e, works, stmtOk, tried, None, pending_dict)
                    ELSE SetOutcome(previous.err, tried, "")
         [] OTHER -> SetOutcome("ValueError", tried, "")

SetRun(e, token, works, stmtOk) ==
    LET previous == get_secret_dict("AWSPREVIOUS", "")
        current == get_secret_dict("AWSCURRENT", "")
        pending == get_secret_dict("AWSPENDING", token)
        tried == <<"AWSPENDING">>
    IN IF e = "mariadb" /\ current.err # "" THEN SetOutcome(current.err, <<>>, "")
       ELSE IF pending.err # "" THEN SetOutcome(pending.err, <<>>, "")
       ELSE LET conn == Session(works, "AWSPENDING", pending.dict)
                next == AfterPending(e, conn, current.dict, pending.dict)
            IN CASE next = "return" -> SetOutcome("ok", tried, "")
                 [] next = "raise" -> SetOutcome("ValueError", tried, "")
                 [] next = "fetch_current" /\ current.err # "" ->
                       SetOutcome(current.err, tried, "")
                 [] OTHER -> SetFromCurrent(e, works, stmtOk, previous,
                                            current.dict, pending.dict)

(***************************************************************************)
(* test_secret                                                             *)
(***************************************************************************)
test_get_pending(w) ==
    /\ inv[w].pc = "test_get_pending"
    /\ LET r == get_secret_dict("AWSPENDING", inv[w].token)
           me == Fetched(inv[w], "AWSPENDING", r.err)
       IN Set(w, IF r.err # "" THEN Raise(me, r.err)
                 ELSE Connect([me EXCEPT !.pending_dict = r.dict],
                              "AWSPENDING", r.dict, "test_after_pending"))
    /\ WorldUnchanged

\* Variant: a failed login with AWSPENDING passes the test.
TestBranch_Lenient(conn) == IF IsOpen(conn) THEN "probe" ELSE "return"

\* "if conn: ... else: raise ValueError".
TestBranch(conn) == IF IsOpen(conn) THEN "probe" ELSE "raise"

test_after_pending(w) ==
    /\ inv[w].pc = "test_after_pending"
    /\ LET branch == TestBranch(inv[w].conn)
       IN Set(w, CASE branch = "probe" -> Goto(inv[w], "test_probe")
                   [] branch = "return" -> Return(inv[w])
                   [] OTHER -> Raise(inv[w], "ValueError"))
    /\ WorldUnchanged

\* SELECT NOW() and the commit: either may fail, the session is closed anyway.
test_probe(w) ==
    /\ inv[w].pc = "test_probe"
    /\ \/ Set(w, Return(Close(Executed(inv[w], "ok"))))
       \/ Set(w, Raise(Close(Executed(inv[w], "fail")), "DatabaseError"))
    /\ WorldUnchanged

(***************************************************************************)
(* finish_secret                                                           *)
(***************************************************************************)
\* The scan for the version that holds AWSCURRENT ("" when there is none).
CurrentVersion(versions) ==
    LET holders == {v \in DOMAIN versions : "AWSCURRENT" \in versions[v]}
    IN IF holders = {} THEN "" ELSE CHOOSE v \in holders : TRUE

finish_describe(w) ==
    /\ inv[w].pc = "finish_describe"
    /\ LET current_version == CurrentVersion(describe_secret.VersionIdsToStages)
       IN Set(w, IF current_version = inv[w].token THEN Return(inv[w])
                 ELSE [inv[w] EXCEPT !.current_version = current_version,
                                     !.pc = "finish_move"])
    /\ WorldUnchanged

finish_move(w) ==
    /\ inv[w].pc = "finish_move"
    /\ \/ /\ inv[w].current_version # ""
          /\ MoveAllowed("AWSCURRENT", inv[w].token, inv[w].current_version)
          /\ stages' = MoveStages("AWSCURRENT", inv[w].token, inv[w].current_version)
          /\ Set(w, Goto(Logged(inv[w], VaultEvent("move_current", "ok")),
                         "finish_remove"))
       \/ /\ UNCHANGED stages
          /\ Set(w, Raise(Logged(inv[w], VaultEvent("move_current", "fail")),
                          "ClientError"))
    /\ UNCHANGED <<engine, rotation, payload, dbPassword>>

finish_remove(w) ==
    /\ inv[w].pc = "finish_remove"
    /\ \/ /\ RemoveAllowed("AWSPENDING", inv[w].token)
          /\ stages' = RemoveStages("AWSPENDING", inv[w].token)
          /\ Set(w, Return(Logged(inv[w], VaultEvent("remove_pending", "ok"))))
       \/ /\ UNCHANGED stages
          /\ Set(w, Raise(Logged(inv[w], VaultEvent("remove_pending", "fail")),
                          "ClientError"))
    /\ UNCHANGED <<engine, rotation, payload, dbPassword>>

(***************************************************************************)
(* Initial states: one version is AWSCURRENT, v0 may be AWSPREVIOUS, v2    *)
(* may be staged AWSPENDING with or without a payload.                     *)
(***************************************************************************)
BadEngine(d) == With(d, "engine", "mysql")

CurrentChoices(e) ==
    {Credential(e, "db1", "app", pOld),
     With(With(With(Credential(e, "db1", "app", pOld), "ssl", "b:true"),
               "connection_string_type", "jdbc"),
          "connection_string", <<"stale">>),
     BadEngine(Credential(e, "db1", "app", pOld))}

\* Templates with a connection string whose type is missing or not known.
\* (They start with no other payload in the vault.)
UntypedTemplates(e) ==
    {With(Credential(e, "db1", "app", pOld), "connection_string", <<"stale">>),
     With(With(Credential(e, "db1", "app", pOld), "connection_string", <<"stale">>),
          "connection_string_type", "mysql-connector")}

PendingChoices(e) ==
    {Credential(e, "db1", "app", pNew),
     Credential(e, "db1", "adm", pNew),
     Credential(e, "db2", "app", pNew),
     Credential(e, "db1", "app", pQuoted),
     With(Credential(e, "db1", "app", pNew), "ssl", "s:TRUE"),
     With(Credential(e, "db1", "app", pNew), "ssl", "s:False"),
     With(Credential(e, "db1", "app", pNew), "ssl", "s:yes"),
     With(Credential(e, "db1", "app", pNew), "ssl", "b:false"),
     With(Credential(e, "db1", "app", pNew), "ssl", "i:1"),
     Without(Credential(e, "db1", "app", pNew), "password")}

PreviousChoices(e) ==
    {Credential(e, "db1", "app", pPrev),
     With(Credential(e, "db1", "adm", pOther), "ssl", "b:false"),
     BadEngine(Credential(e, "db1", "app", pPrev))}

InitialPasswords == {pOld, pNew, pPrev}

Init ==
    /\ engine \in Engines
    /\ rotation \in {"absent", "true", "false"}
    /\ \E cur \in CurrentChoices(engine) \cup UntypedTemplates(engine) \cup {None},
          prev \in PreviousChoices(engine) \cup {None},
          pend \in PendingChoices(engine) \cup {None},
          staged \in BOOLEAN :
         /\ staged \/ pend = None
         /\ cur \in UntypedTemplates(engine) => prev = None /\ pend = None
         /\ cur = None => prev = None
         /\ stages = [v \in Versions |->
                        CASE v = "v1" -> IF cur = None THEN {} ELSE {"AWSCURRENT"}
                          [] v = "v0" -> IF prev = None THEN {} ELSE {"AWSPREVIOUS"}
                          [] OTHER -> IF staged THEN {"AWSPENDING"} ELSE {}]
         /\ payload = [v \in (IF cur = None THEN {} ELSE {"v1"})
                                  \cup (IF prev = None THEN {} ELSE {"v0"})
                                  \cup (IF pend = None THEN {} ELSE {"v2"}) |->
                         CASE v = "v1" -> cur
                           [] v = "v0" -> prev
                           [] OTHER -> pend]
    /\ \E p \in InitialPasswords :
         dbPassword = [a \in Accounts |-> IF a = <<"db1", "app">> THEN p ELSE pOther]
    /\ inv = [w \in Workers |-> Idle]

Step(w) ==
    \/ lambda_handler(w)
    \/ create_get_current(w) \/ create_get_pending(w)
    \/ create_random(w) \/ create_put(w)
    \/ get_connection(w) \/ connect_fallback(w)
    \/ set_get_previous(w) \/ set_get_current(w) \/ set_get_pending(w)
    \/ set_after_pending(w) \/ set_after_current(w) \/ set_after_previous(w)
    \/ set_execute(w) \/ set_commit(w)
    \/ test_get_pending(w) \/ test_after_pending(w) \/ test_probe(w)
    \/ finish_describe(w) \/ finish_move(w) \/ finish_remove(w)

\* The scheduler runs one invocation at a time.
Next == \E w \in Sequential : Step(w)

Spec == Init /\ [][Next]_vars

(***************************************************************************)
(* Two invocations at a time.  A rotation for the token v2 has just begun  *)
(* (v2 staged AWSPENDING with no payload, the AWSCURRENT password live);   *)
(* each of two workers is invoked with createSecret for v2 and, once its   *)
(* createSecret returned, with setSecret; their steps interleave freely.   *)
(***************************************************************************)
RotatingToken == "v2"

ConcurrentInit ==
    /\ engine \in Engines
    /\ rotation = "true"
    /\ stages = [v \in Versions |->
                   CASE v = "v1" -> {"AWSCURRENT"}
                     [] v = RotatingToken -> {"AWSPENDING"}
                     [] OTHER -> {}]
    /\ payload \in {[v \in {"v1"} |-> cur] :
                      cur \in CurrentChoices(engine) \ {BadEngine(Credential(engine, "db1", "app", pOld))}}
    /\ dbPassword = [a \in Accounts |-> IF a = <<"db1", "app">> THEN pOld ELSE pOther]
    /\ inv = [w \in Workers |-> Idle]

ConcurrentInvoke(w) ==
    \/ /\ inv[w].pc = "idle"
       /\ Invoke(w, RotatingToken, "createSecret")
    \/ /\ inv[w].pc = "done"
       /\ inv[w].step = "createSecret"
       /\ inv[w].result = "ok"
       /\ Invoke(w, RotatingToken, "setSecret")

ConcurrentStep(w) ==
    \/ ConcurrentInvoke(w)
    \/ create_get_current(w) \/ create_get_pending(w)
    \/ create_random(w) \/ create_put(w)
    \/ get_connection(w) \/ connect_fallback(w)
    \/ set_get_previous(w) \/ set_get_current(w) \/ set_get_pending(w)
    \/ set_after_pending(w) \/ set_after_current(w) \/ set_after_previous(w)
    \/ set_execute(w) \/ set_commit(w)

ConcurrentNext == \E w \in Workers : ConcurrentStep(w)

SpecConcurrent == ConcurrentInit /\ [][ConcurrentNext]_vars

(***************************************************************************)
(* One rotation, as the rotation scheduler drives it.  The token v2 is     *)
(* staged AWSPENDING with no payload and the live password is the one of   *)
(* AWSCURRENT; the steps are invoked in protocol order, a step is invoked  *)
(* again any number of times, after a failure or a success, and the next   *)
(* step only after the step before it returned.                            *)
(***************************************************************************)
RotationInit ==
    /\ engine \in Engines
    /\ rotation = "true"
    /\ \E cur \in (CurrentChoices(engine) \cup UntypedTemplates(engine))
                      \ {BadEngine(Credential(engine, "db1", "app", pOld))},
          prev \in PreviousChoices(engine)
                      \cup {Credential(engine, "db2", "app", pOther), None} :
         /\ stages = [v \in Versions |->
                        CASE v = "v1" -> {"AWSCURRENT"}
                          [] v = "v0" -> IF prev = None THEN {} ELSE {"AWSPREVIOUS"}
                          [] OTHER -> {"AWSPENDING"}]
         /\ payload = [v \in {"v1"} \cup (IF prev = None THEN {} ELSE {"v0"}) |->
                         IF v = "v1" THEN cur ELSE prev]
    /\ dbPassword = [a \in Accounts |-> IF a = <<"db1", "app">> THEN pOld ELSE pOther]
    /\ inv = [w \in Workers |-> Idle]

\* The step after `step` in the protocol ("" after the last).
NextStep(step) ==
    IF \E k \in 1..(Len(ProtocolOrder) - 1) : ProtocolOrder[k] = step
    THEN ProtocolOrder[(CHOOSE k \in 1..(Len(ProtocolOrder) - 1) : ProtocolOrder[k] = step) + 1]
    ELSE ""

\* The scheduler invokes the step after one that returned.
Advance(w) ==
    /\ inv[w].pc = "done"
    /\ inv[w].result = "ok"
    /\ NextStep(inv[w].step) # ""
    /\ Invoke(w, RotatingToken, NextStep(inv[w].step))

RotationInvoke(w) ==
    \/ /\ inv[w].pc = "idle"
       /\ Invoke(w, RotatingToken, ProtocolOrder[1])
    \/ /\ inv[w].pc = "done"
       /\ Invoke(w, RotatingToken, inv[w].step)
    \/ Advance(w)

RotationStep(w) ==
    \/ RotationInvoke(w)
    \/ create_get_current(w) \/ create_get_pending(w)
    \/ create_random(w) \/ create_put(w)
    \/ get_connection(w) \/ connect_fallback(w)
    \/ set_get_previous(w) \/ set_get_current(w) \/ set_get_pending(w)
    \/ set_after_pending(w) \/ set_after_current(w) \/ set_after_previous(w)
    \/ set_execute(w) \/ set_commit(w)
    \/ test_get_pending(w) \/ test_after_pending(w) \/ test_probe(w)
    \/ finish_describe(w) \/ finish_move(w) \/ finish_remove(w)

RotationNext == \E w \in Sequential : RotationStep(w)

SpecRotation == RotationInit /\ [][RotationNext]_vars

(***************************************************************************)
(* The same rotation under the scheduling the protocol relies on: the      *)
(* scheduler keeps invoking (a failed step again, the next step after a    *)
(* success), and a vault write, a login with a credential the database     *)
(* accepts, a statement the server accepts and a commit do not fail for    *)
(* ever: each succeeds eventually if it is attempted again and again.      *)
(***************************************************************************)
GoodPut(w) == create_put(w) /\ inv'[w].result = "ok"
GoodLogin(w, slot) ==
    /\ get_connection(w) \/ connect_fallback(w)
    /\ inv[w].slot = slot
    /\ IsOpen(inv'[w].conn)
GoodExecute(w) == set_execute(w) /\ inv'[w].pc = "set_commit"
GoodCommit(w) == set_commit(w) /\ inv'[w].result = "ok"
GoodProbe(w) == test_probe(w) /\ inv'[w].result = "ok"
GoodMove(w) == finish_move(w) /\ inv'[w].pc = "finish_remove"
GoodRemove(w) == finish_remove(w) /\ inv'[w].result = "ok"

RotationFairness ==
    /\ WF_vars(RotationNext)
    /\ \A w \in Sequential :
         /\ SF_vars(Advance(w))
         /\ SF_vars(GoodPut(w))
         /\ \A slot \in {"AWSPENDING", "AWSCURRENT", "AWSPREVIOUS"} : SF_vars(GoodLogin(w, slot))
         /\ SF_vars(GoodExecute(w))
         /\ SF_vars(GoodCommit(w))
         /\ SF_vars(GoodProbe(w))
         /\ SF_vars(GoodMove(w))
         /\ SF_vars(GoodRemove(w))

SpecRotationFair == RotationInit /\ [][RotationNext]_vars /\ RotationFairness

(***************************************************************************)
(* The formatter alone: generate_connection_string applied to templates of *)
(* every type, with and without port and dbname, and to passwords with a   *)
(* space or a quote in them.                                               *)
(***************************************************************************)
pSpaced == <<"a", " ", "b">>
FormatPasswords == {pSpaced, pQuoted, pNew}

FormatInputs(e) ==
    {[f \in DOMAIN Credential(e, "db1", "app", pOld)
            \cup {"connection_string", "connection_string_type"} \cup fs |->
         CASE f = "connection_string" -> <<"stale">>
           [] f = "connection_string_type" -> type
           [] f = "port" -> "3306"
           [] f = "dbname" -> "d"
           [] OTHER -> Credential(e, "db1", "app", pOld)[f]] :
       type \in SupportedTypes \cup {"mysql-connector"},
       fs \in SUBSET {"port", "dbname"}}

FormatInit ==
    /\ engine \in Engines
    /\ rotation = "true"
    /\ stages = [v \in Versions |-> IF v = "v1" THEN {"AWSCURRENT"} ELSE {}]
    /\ payload \in {[v \in {"v1"} |-> d] : d \in FormatInputs(engine)}
    /\ dbPassword = [a \in Accounts |-> pOld]
    /\ \E p \in FormatPasswords :
         inv = [w \in Workers |-> [Idle EXCEPT !.random_pass = p]]

\* connection_string = generate_connection_string(current_dict, random_pass)
format(w) ==
    /\ inv[w].pc = "idle"
    /\ Set(w, [inv[w] EXCEPT
                 !.pc = "done",
                 !.current_dict =
                     With(payload["v1"], "connection_string",
                          generate_connection_string(engine, payload["v1"],
                                                     inv[w].random_pass))])
    /\ WorldUnchanged

FormatNext == \E w \in Sequential : format(w)

SpecFormat == FormatInit /\ [][FormatNext]_vars

(***************************************************************************)
(* Properties.                                                             *)
(***************************************************************************)
\* The labels the invocation saw on its token in the metadata it fetched.
SeenLabels(r) == Get(r.versions, r.token, {})
Started(r) == r.pc # "idle"
Done(r) == r.pc = "done"
Ops(r) == {r.log[i].op : i \in DOMAIN r.log}
HasEvent(r, op, slot, res) ==
    \E i \in DOMAIN r.log :
        r.log[i].op = op /\ r.log[i].slot = slot /\ r.log[i].res = res

\* C1: an invocation for a token that is labeled AWSCURRENT (rotation not
\* disabled) returns success whatever the step name, and does nothing: no
\* handler runs, no vault write, no connection attempt, no statement.
C1_CurrentIsNoOp ==
    \A w \in Workers :
        (/\ Started(inv[w])
         /\ "AWSCURRENT" \in SeenLabels(inv[w])
         /\ rotation # "false")
        => /\ Done(inv[w])
           /\ inv[w].result = "ok"
           /\ inv[w].handler = "none"
           /\ inv[w].log = <<>>
           /\ inv[w].opened = 0

C1_Witness ==
    /\ Done(inv["w1"])
    /\ inv["w1"].step = "deleteSecret"
    /\ "AWSCURRENT" \in SeenLabels(inv["w1"])
    /\ inv["w1"].result = "ok"

\* C2 as stated: every invocation for a token without AWSPENDING fails with
\* a ValueError and runs no handler.
C2_Original ==
    \A w \in Workers :
        (Done(inv[w]) /\ "AWSPENDING" \notin SeenLabels(inv[w]))
        => inv[w].result = "ValueError" /\ inv[w].handler = "none"

\* C2, amended: every invocation for a token that holds neither AWSPENDING
\* nor AWSCURRENT fails with a ValueError, runs no handler and does nothing.
C2_NotPendingFails ==
    \A w \in Workers :
        (/\ Started(inv[w])
         /\ "AWSPENDING" \notin SeenLabels(inv[w])
         /\ "AWSCURRENT" \notin SeenLabels(inv[w]))
        => /\ Done(inv[w])
           /\ inv[w].result = "ValueError"
           /\ inv[w].handler = "none"
           /\ inv[w].log = <<>>

C2_Witness ==
    /\ Done(inv["w1"])
    /\ inv["w1"].step = "setSecret"
    /\ SeenLabels(inv["w1"]) = {"AWSPREVIOUS"}
    /\ rotation = "true"
    /\ inv["w1"].result = "ValueError"

\* C3: finishSecret invoked again right after a successful finishSecret for
\* the same token succeeds too, and in every state of a finishSecret
\* invocation that found a version labeled AWSCURRENT exactly one version
\* is labeled AWSCURRENT.
C3_FinishTwice ==
    \A w \in Workers :
        /\ (/\ Started(inv[w])
            /\ inv[w].step = "finishSecret"
            /\ CurrentVersion(inv[w].versions) # "")
           => Cardinality(Holder("AWSCURRENT")) = 1
        /\ (Done(inv[w]) /\ inv[w].step = "finishSecret" /\ inv[w].again)
           => inv[w].result = "ok"

\* The second call, after a first one that moved the label from v1 to v2.
C3_Witness ==
    /\ Done(inv["w1"])
    /\ inv["w1"].step = "finishSecret"
    /\ inv["w1"].again
    /\ inv["w1"].token = "v2"
    /\ inv["w1"].result = "ok"
    /\ stages["v2"] = {"AWSCURRENT"}
    /\ "AWSPREVIOUS" \in stages["v1"]

\* C4: a finishSecret invocation that returns success leaves its token
\* labeled AWSCURRENT and not AWSPENDING, and no invocation, finished or
\* failed, leaves its token labeled both.
C4_FinishAtomic ==
    \A w \in Workers :
        /\ (Done(inv[w]) /\ inv[w].step = "finishSecret" /\ inv[w].result = "ok")
           => /\ "AWSCURRENT" \in stages[inv[w].token]
              /\ "AWSPENDING" \notin stages[inv[w].token]
        /\ Done(inv[w])
           => ~({"AWSCURRENT", "AWSPENDING"} \subseteq stages[inv[w].token])

\* C5: createSecret invoked again right after a successful createSecret for
\* the same token succeeds, and it (as any createSecret invocation that
\* finds a payload under its token) generates no password, calls no
\* putSecretValue and leaves the payload of the token as it found it.
C5_CreateIdempotent ==
    \A w \in Workers :
        /\ (/\ Started(inv[w])
            /\ inv[w].step = "createSecret"
            /\ inv[w].again \/ inv[w].before # None)
           => /\ Ops(inv[w]) \cap {"get_random_password", "put_secret_value"} = {}
              /\ Get(payload, inv[w].token, None) = inv[w].before
        /\ (Done(inv[w]) /\ inv[w].step = "createSecret" /\ inv[w].again)
           => inv[w].result = "ok"

\* The second call, after a first one that generated the password.
C5_Witness ==
    /\ Done(inv["w1"])
    /\ inv["w1"].step = "createSecret"
    /\ inv["w1"].again
    /\ inv["w1"].handler = "create_secret"
    /\ inv["w1"].before # None
    /\ inv["w1"].before["password"] \in RandomPasswords

\* C6: once setSecret has opened a session with the AWSPENDING credential,
\* it only closes that session and returns success: no statement is
\* executed and no further connection is attempted.
C6_SetIdempotent ==
    \A w \in Workers :
        LET r == inv[w]
        IN \A i \in DOMAIN r.log :
             (/\ r.step = "setSecret"
              /\ r.log[i].op = "connect"
              /\ r.log[i].slot = "AWSPENDING"
              /\ r.log[i].res = "ok")
             => /\ r.pc \in {"set_after_pending", "done"}
                /\ "execute" \notin Ops(r)
                /\ \A j \in DOMAIN r.log : j > i => r.log[j].op = "close"
                /\ Done(r) => /\ r.result = "ok"
                              /\ r.opened = 0
                              /\ r.log[Len(r.log)].op = "close"

C6_Witness ==
    /\ Done(inv["w1"])
    /\ inv["w1"].step = "setSecret"
    /\ HasEvent(inv["w1"], "connect", "AWSPENDING", "ok")
    /\ HasEvent(inv["w1"], "connect", "AWSPENDING", "fail")
    /\ inv["w1"].result = "ok"

\* The payloads setSecret works on, as the vault holds them.
AccountsDiffer(token) ==
    LET cur == get_secret_dict("AWSCURRENT", "")
        pend == get_secret_dict("AWSPENDING", token)
    IN /\ cur.err = ""
       /\ pend.err = ""
       /\ \/ cur.dict["username"] # pend.dict["username"]
          \/ cur.dict["host"] # pend.dict["host"]

\* C7: setSecret fails with a ValueError when the AWSPENDING and AWSCURRENT
\* payloads name different usernames or hosts, and it has attempted no
\* connection by then.
C7_MismatchFatalFirst ==
    \A w \in Workers :
        (/\ Done(inv[w])
         /\ inv[w].handler = "set_secret"
         /\ AccountsDiffer(inv[w].token))
        => /\ inv[w].result = "ValueError"
           /\ "connect" \notin Ops(inv[w])

\* C8: setSecret never executes the password change over a session whose
\* credential names another username or host than the AWSPENDING payload.
C8_NoForeignSession ==
    \A w \in Workers :
        LET r == inv[w]
        IN \A i \in DOMAIN r.log :
             (r.handler = "set_secret" /\ r.log[i].op = "execute")
             => /\ r.log[i].user = r.pending_dict["username"]
                /\ r.log[i].host = r.pending_dict["host"]

\* C9: when an invocation ends, every session it opened is closed.
C9_SessionsClosed ==
    \A w \in Workers : Done(inv[w]) => inv[w].opened = 0

\* C10: when setSecret returns success the live password of the account of
\* the AWSPENDING payload is the AWSPENDING password, and the statement it
\* executes sets exactly that password.
C10_PendingIsLive ==
    \A w \in Workers :
        LET r == inv[w]
        IN /\ (Done(r) /\ r.handler = "set_secret" /\ r.result = "ok")
              => CanLogin(r.pending_dict)
           /\ (r.handler = "set_secret" /\ r.tx # <<>>)
              => r.tx[1].password = r.pending_dict["password"]

\* No session was opened by the invocation so far.
NoSession(r) == \A i \in DOMAIN r.log : ~(r.log[i].op = "connect" /\ r.log[i].res = "ok")
Attempted(r, slot) == \E i \in DOMAIN r.log : r.log[i].op = "connect" /\ r.log[i].slot = slot

\* A setSecret invocation that opened no session executes no statement
\* and does not return success; when the attempts with AWSPENDING, AWSCURRENT
\* and (if there is one) AWSPREVIOUS all failed it ends with a ValueError;
\* and a ValueError that is not due to an account mismatch comes only after
\* AWSCURRENT failed and AWSPREVIOUS was tried or is not usable.
NoSessionOutcome ==
    \A w \in Workers :
        LET r == inv[w]
            previous == get_secret_dict("AWSPREVIOUS", "")
        IN /\ (r.handler = "set_secret" /\ NoSession(r))
              => /\ "execute" \notin Ops(r)
                 /\ r.tx = <<>>
                 /\ Done(r) => r.result # "ok"
           /\ (/\ Done(r)
               /\ r.handler = "set_secret"
               /\ NoSession(r)
               /\ HasEvent(r, "connect", "AWSPENDING", "fail")
               /\ HasEvent(r, "connect", "AWSCURRENT", "fail")
               /\ \/ HasEvent(r, "connect", "AWSPREVIOUS", "fail")
                  \/ previous.err = "ResourceNotFoundException")
              => r.result = "ValueError"
           /\ (/\ Done(r)
               /\ r.handler = "set_secret"
               /\ r.result = "ValueError"
               /\ ~AccountsDiffer(r.token))
              => /\ HasEvent(r, "connect", "AWSPENDING", "fail")
                 /\ HasEvent(r, "connect", "AWSCURRENT", "fail")
                 /\ Attempted(r, "AWSPREVIOUS") \/ previous.err # ""

\* While a setSecret invocation has opened no session, no step of it
\* changes a database password.
NoSessionNoChange ==
    [][\A w \in Workers :
          (inv'[w].handler = "set_secret" /\ NoSession(inv'[w]))
          => dbPassword' = dbPassword]_vars

\* C11: setSecret that can open no session with AWSPENDING, AWSCURRENT or
\* AWSPREVIOUS fails with a ValueError, executes no statement and leaves
\* the database passwords unchanged; a failed attempt alone does not end
\* the step while another credential is left to try.
C11_NoSessionIsFatal == []NoSessionOutcome /\ NoSessionNoChange

\* All three credentials were tried (every one could have logged in or not)
\* and none opened a session.
C11_Witness ==
    /\ Done(inv["w1"])
    /\ inv["w1"].handler = "set_secret"
    /\ NoSession(inv["w1"])
    /\ HasEvent(inv["w1"], "connect", "AWSPENDING", "fail")
    /\ HasEvent(inv["w1"], "connect", "AWSCURRENT", "fail")
    /\ HasEvent(inv["w1"], "connect", "AWSPREVIOUS", "fail")
    /\ ~AccountsDiffer(inv["w1"].token)
    /\ inv["w1"].result = "ValueError"

\* C12: testSecret returns success only after it opened a session with the
\* AWSPENDING payload of its token and the probe succeeded over it; a failed
\* login ends it with a ValueError and a failed probe with the probe's
\* error, the session closed.
C12_TestOutcome ==
    \A w \in Workers :
        LET r == inv[w]
        IN r.handler = "test_secret"
           => /\ (Done(r) /\ r.result = "ok")
                 => /\ r.pending_dict = payload[r.token]
                    /\ "AWSPENDING" \in stages[r.token]
                    /\ \E i \in DOMAIN r.log :
                         /\ r.log[i].op = "connect" /\ r.log[i].res = "ok"
                         /\ r.log[i].slot = "AWSPENDING"
                         /\ r.log[i].host = r.pending_dict["host"]
                         /\ r.log[i].user = r.pending_dict["username"]
                    /\ HasEvent(r, "execute", "AWSPENDING", "ok")
                    /\ CanLogin(r.pending_dict)
              /\ (Done(r) /\ Attempted(r, "AWSPENDING") /\ NoSession(r))
                 => r.result = "ValueError" /\ "execute" \notin Ops(r)
              /\ HasEvent(r, "execute", "AWSPENDING", "fail")
                 => Done(r) /\ r.result = "DatabaseError" /\ r.opened = 0
              /\ \A i \in DOMAIN r.log : r.log[i].slot \in {"", "AWSPENDING"}

\* A login that failed though the password is live: the test fails.
C12_Witness ==
    /\ Done(inv["w1"])
    /\ inv["w1"].handler = "test_secret"
    /\ NoSession(inv["w1"])
    /\ Attempted(inv["w1"], "AWSPENDING")
    /\ CanLogin(inv["w1"].pending_dict)
    /\ inv["w1"].result = "ValueError"

\* C13: when createSecret, setSecret, testSecret and finishSecret were run
\* in this order from a clean start, each succeeding, the token is labeled
\* AWSCURRENT and not AWSPENDING, the version that was AWSCURRENT is not any
\* more, and the live password is the one of the version now AWSCURRENT.
C13_HappyPath ==
    \A w \in Workers :
        LET r == inv[w]
        IN (Done(r) /\ r.result = "ok" /\ r.chain = Len(ProtocolOrder))
           => /\ "AWSCURRENT" \in stages[r.token]
              /\ "AWSPENDING" \notin stages[r.token]
              /\ Holder("AWSCURRENT") = {r.token}
              /\ r.current_version # r.token
              /\ "AWSCURRENT" \notin stages[r.current_version]
              /\ r.token \in DOMAIN payload
              /\ get_secret_value("AWSCURRENT", "").dict = payload[r.token]
              /\ CanLogin(payload[r.token])

\* The rotation is complete: v2 carries a generated password, which is live.
C13_Witness ==
    /\ Done(inv["w1"])
    /\ inv["w1"].result = "ok"
    /\ inv["w1"].step = "finishSecret"
    /\ inv["w1"].chain = Len(ProtocolOrder)
    /\ HasEvent(inv["w1"], "remove_pending", "", "ok")
    /\ payload["v2"]["password"] \in RandomPasswords
    /\ dbPassword[<<"db1", "app">>] = payload["v2"]["password"]

\* The payload has a connection string of a missing or unsupported type.
Untyped(d) ==
    /\ "connection_string" \in DOMAIN d
    /\ Get(d, "connection_string_type", "None") \notin SupportedTypes

\* The sequence `sub` occurs in the sequence `text`.
Occurs(sub, text) ==
    \E i \in 1..(Len(text) - Len(sub) + 1) : SubSeq(text, i, i + Len(sub) - 1) = sub

\* C14: the payload createSecret stores when it found none under the token
\* has the fields and values of the AWSCURRENT payload, except password,
\* which is the generated one, and connection_string, which is there exactly
\* when AWSCURRENT has one and is then formatted from the new password.
C14_PendingFromTemplate ==
    \A w \in Workers :
        LET r == inv[w]
            template == get_secret_value("AWSCURRENT", "").dict
        IN (r.handler = "create_secret" /\ HasEvent(r, "put_secret_value", "", "ok"))
           => /\ r.before = None
              /\ "AWSPENDING" \in stages[r.token]
              /\ DOMAIN payload[r.token] = DOMAIN template
              /\ \A f \in DOMAIN template \ {"password", "connection_string"} :
                    payload[r.token][f] = template[f]
              /\ payload[r.token]["password"] = r.random_pass
              /\ r.random_pass \in RandomPasswords
              /\ "connection_string" \in DOMAIN template
                 => /\ payload[r.token]["connection_string"]
                         = generate_connection_string(engine, payload[r.token], r.random_pass)
                    /\ \/ Untyped(template)
                       \/ Occurs(quote_plus(r.random_pass),
                                 payload[r.token]["connection_string"])
                    /\ ~Occurs(template["password"], payload[r.token]["connection_string"])

\* A template with a connection string and one without.
C14_Witness ==
    /\ Done(inv["w1"])
    /\ inv["w1"].handler = "create_secret"
    /\ HasEvent(inv["w1"], "put_secret_value", "", "ok")
    /\ "connection_string" \in DOMAIN payload[inv["w1"].token]
    /\ payload[inv["w1"].token]["connection_string"] # <<"stale">>
    /\ Get(payload[inv["w1"].token], "ssl", "") = "b:true"

\* C15: while createSecret, setSecret or testSecret runs (its token holds
\* AWSPENDING, which the guard checked) and after it ended, with success or
\* not, the versions carry the labels they carried when it started.
C15_OnlyFinishMovesLabels ==
    \A w \in Workers :
        inv[w].handler \in {"create_secret", "set_secret", "test_secret"}
        => /\ "AWSPENDING" \in SeenLabels(inv[w])
           /\ describe_secret.VersionIdsToStages = inv[w].versions

\* createSecret has stored a payload with VersionStages AWSPENDING.
C15_Witness ==
    /\ Done(inv["w1"])
    /\ inv["w1"].handler = "create_secret"
    /\ HasEvent(inv["w1"], "put_secret_value", "", "ok")
    /\ describe_secret.VersionIdsToStages = inv["w1"].versions
    /\ Cardinality(DOMAIN inv["w1"].versions) = 3

\* C16: with rotation disabled on the secret every invocation fails with a
\* ValueError, for a token labeled AWSCURRENT too, and runs no handler; with
\* no RotationEnabled in the metadata the invocation goes through the
\* staging checks as with rotation enabled.
C16_DisabledIsFatal ==
    \A w \in Workers :
        LET r == inv[w]
        IN /\ (Started(r) /\ rotation = "false")
              => /\ Done(r)
                 /\ r.result = "ValueError"
                 /\ r.handler = "none"
                 /\ r.log = <<>>
           /\ (Started(r) /\ rotation = "absent")
              => /\ "AWSCURRENT" \in SeenLabels(r) => r.result = "ok"
                 /\ (/\ SeenLabels(r) = {"AWSPENDING"}
                     /\ r.step \in {ProtocolOrder[i] : i \in DOMAIN ProtocolOrder})
                    => r.handler # "none"

\* Rotation is disabled and the token is the AWSCURRENT version.
C16_Witness ==
    /\ Done(inv["w1"])
    /\ rotation = "false"
    /\ "AWSCURRENT" \in SeenLabels(inv["w1"])
    /\ inv["w1"].step = "finishSecret"
    /\ inv["w1"].result = "ValueError"

\* C17: an invocation with a step name that is none of the four, for a
\* token labeled AWSPENDING and not AWSCURRENT, fails with a ValueError; no
\* handler runs, nothing is written to the vault, no connection is tried.
C17_UnknownStepIsFatal ==
    \A w \in Workers :
        LET r == inv[w]
        IN (/\ Started(r)
            /\ "AWSPENDING" \in SeenLabels(r)
            /\ "AWSCURRENT" \notin SeenLabels(r)
            /\ r.step \notin {ProtocolOrder[i] : i \in DOMAIN ProtocolOrder})
           => /\ Done(r)
              /\ r.result = "ValueError"
              /\ r.handler = "none"
              /\ r.log = <<>>
              /\ r.opened = 0
              /\ describe_secret.VersionIdsToStages = r.versions
              /\ Get(payload, r.token, None) = r.before

\* The step name is not known, rotation is enabled, the token is staged.
C17_Witness ==
    /\ Done(inv["w1"])
    /\ inv["w1"].step = "deleteSecret"
    /\ SeenLabels(inv["w1"]) = {"AWSPENDING"}
    /\ rotation = "true"
    /\ inv["w1"].result = "ValueError"

\* The connection attempts of the resolver call made last (for r.cred).
Attempts(r) ==
    LET OfCall(ev) == ev.op = "connect" /\ ev.slot = r.slot
    IN SelectSeq(r.log, OfCall)
InResolver(r) == r.pc \in {"get_connection", "connect_fallback"}

\* What the ssl field of a payload asks for.
SslAsks(d) ==
    IF "ssl" \notin DOMAIN d THEN "fallback"
    ELSE IF d["ssl"] \in {"b:true", "s:true", "s:TRUE"} THEN "encrypted"
    ELSE IF d["ssl"] \in {"b:false", "s:false", "s:False"} THEN "plain"
    ELSE "fallback"

\* The transport policy for the engine variant `e`.
TransportPolicy(e) ==
    \A w \in Workers :
        LET r == inv[w]
            a == Attempts(r)
        IN (engine = e /\ r.cred # None)
           => /\ SslAsks(r.cred) = "plain"
                 => /\ \A i \in DOMAIN a : ~TriesEncrypted(a[i].how)
                    /\ Len(a) <= 1
              /\ SslAsks(r.cred) = "encrypted"
                 => /\ \A i \in DOMAIN a : ~TriesPlain(a[i].how)
                    /\ Len(a) <= 1
              /\ SslAsks(r.cred) = "fallback"
                 => /\ a # <<>> => TriesEncrypted(a[1].how)
                    /\ (~InResolver(r) /\ a # <<>> /\ a[1].res = "fail")
                       => TriesPlain(a[1].how) \/ (Len(a) = 2 /\ TriesPlain(a[2].how))
              /\ (~InResolver(r) /\ r.cred # None) => a # <<>>

\* C18: the transport the resolver uses follows the ssl field in both
\* variants: absent or unrecognised, encrypted with fallback to unencrypted;
\* false, never encrypted; true, encrypted once and no fallback.
C18_TransportPolicy == TransportPolicy("mariadb") /\ TransportPolicy("postgres")

\* The policy in the MariaDB variant alone.
TransportPolicyMariaDB == TransportPolicy("mariadb")

\* The attempts of one resolver call: at most two; the second only after
\* the first failed with fallback permitted, and unencrypted; only the last
\* can have succeeded; the caller gets a session exactly when it did.
ResolverAttempts ==
    \A w \in Workers :
        LET r == inv[w]
            a == Attempts(r)
        IN r.cred # None
           => /\ Len(a) <= 2
              /\ \A i \in DOMAIN a : a[i].res = "ok" => i = Len(a)
              /\ Len(a) = 2
                 => /\ a[1].res = "fail"
                    /\ engine = "mariadb"
                    /\ SslAsks(r.cred) = "fallback"
                    /\ a[2].how = "plain"
              /\ r.pc = "connect_fallback" => Len(a) = 1 /\ a[1].res = "fail"
              /\ r.pc = r.ret
                 => /\ a # <<>>
                    /\ IsOpen(r.conn) <=> a[Len(a)].res = "ok"

\* A step of the resolver makes one attempt and either goes on to the
\* fallback attempt or comes back to the caller: it never ends the
\* invocation with an error.
ResolverReturns ==
    [][\A w \in Workers :
          InResolver(inv[w])
          => /\ inv'[w].pc \in {inv[w].ret, "connect_fallback"}
             /\ Len(inv'[w].log) = Len(inv[w].log) + 1
             /\ inv'[w].result = ""]_vars

\* C19: one call of the resolver makes at most two attempts; the second is
\* made only after the first failed with fallback permitted, and it is
\* unencrypted; the call returns a session if an attempt succeeded and none
\* otherwise, and it never raises on a failed login.
C19_ResolverAttempts == []ResolverAttempts /\ ResolverReturns

\* The encrypted attempt failed and the unencrypted one gave the session.
C19_Witness ==
    /\ inv["w1"].pc = inv["w1"].ret
    /\ inv["w1"].cred # None
    /\ Len(Attempts(inv["w1"])) = 2
    /\ Attempts(inv["w1"])[1].how = "ssl"
    /\ Attempts(inv["w1"])[2].res = "ok"
    /\ IsOpen(inv["w1"].conn)

\* The passwords the payloads of the vault hold.
StoredPasswords ==
    {payload[v]["password"] : v \in {x \in DOMAIN payload : "password" \in DOMAIN payload[x]}}

\* A logged line shows a password: the password, or its URL encoding,
\* occurs in a text the line was formatted from.
Shows(line, password) ==
    \E f \in DOMAIN line \cap {"password", "connection_string"} :
        \/ Occurs(password, line[f])
        \/ Occurs(quote_plus(password), line[f])

\* C20: no line logged by a step shows the password of a credential record,
\* also not the line that logs a credential record after a failed attempt.
C20_NoPasswordLogged ==
    \A w \in Workers :
        \A i \in DOMAIN inv[w].lines :
            \A password \in StoredPasswords : ~Shows(inv[w].lines[i], password)

\* The same, for the lines of the MariaDB variant alone.
NoPasswordLoggedMariaDB == engine = "mariadb" => C20_NoPasswordLogged

\* The invocation read a payload that failed validation.
ReadInvalid(r) == \E i \in DOMAIN r.fetched : r.fetched[i].err = "KeyError"

\* C21: an invocation that read a payload which lacks a required field or
\* has an unsupported engine tag, from any staging slot, fails with that
\* validation error at once; it does not go on as if there were no payload.
C21_ValidationIsFatal ==
    \A w \in Workers :
        ReadInvalid(inv[w])
        => /\ Done(inv[w])
           /\ inv[w].result = "KeyError"
           /\ inv[w].fetched[Len(inv[w].fetched)].err = "KeyError"

\* The same, for the PostgreSQL variant alone.
ValidationIsFatalPostgres == engine = "postgres" => C21_ValidationIsFatal

\* The slots a setSecret invocation tried to log in with, in order.
RECURSIVE TriedSlots(_)
TriedSlots(log) ==
    IF log = <<>> THEN <<>>
    ELSE LET rest == TriedSlots(Tail(log))
         IN IF Head(log).op = "connect" /\ (rest = <<>> \/ rest[1] # Head(log).slot)
            THEN <<Head(log).slot>> \o rest
            ELSE rest

\* SetRun tells what the steps of a setSecret invocation do: a finished
\* invocation (whose commit did not fail) has the result, the slots tried
\* and the executing session that SetRun gives for the answers it got.
SetRunAgrees ==
    \A w \in Workers :
        LET r == inv[w]
            works == [s \in Slots |-> HasEvent(r, "connect", s, "ok")]
            stmtOk == \A i \in DOMAIN r.log : r.log[i].op = "execute" => r.log[i].res = "ok"
            run == SetRun(engine, r.token, works, stmtOk)
        IN (/\ Done(r) /\ r.handler = "set_secret"
            /\ ~HasEvent(r, "commit", "", "fail"))
           => /\ run.result = r.result
              /\ run.tried = TriedSlots(r.log)
              /\ \A i \in DOMAIN r.log : r.log[i].op = "execute" => r.log[i].slot = run.over
              /\ run.over # "" => "execute" \in Ops(r)

\* The answers the database can give in the current state: a login works
\* only with a payload that is valid and carries the live password.
LoginOracles(token) ==
    {works \in [Slots -> BOOLEAN] :
        \A s \in Slots :
            works[s] => LET d == get_secret_dict(s, IF s = "AWSPENDING" THEN token ELSE "")
                        IN IF d.err = "" THEN CanLogin(d.dict) ELSE FALSE}

\* C22: for the same token, the same vault and the same answers of the
\* database, setSecret of the MariaDB variant and setSecret of the
\* PostgreSQL variant end the same way, having tried the same credentials
\* in the same order and executed the password change over the same session.
C22_VariantsAgree ==
    \A token \in Versions :
        "AWSPENDING" \in stages[token]
        => \A works \in LoginOracles(token), stmtOk \in BOOLEAN :
              LET m == SetRun("mariadb", token, works, stmtOk)
                  p == SetRun("postgres", token, works, stmtOk)
              IN /\ (m.result = "ok") <=> (p.result = "ok")
                 /\ m.tried = p.tried
                 /\ m.over = p.over

\* C23: with such a template createSecret does not fail on that account:
\* once the password is generated the payload to store has the new password
\* and the sentinel as connection_string, and a successful put stores it.
C23_UnsupportedTypeNotFatal ==
    \A w \in Workers :
        LET r == inv[w]
            template == get_secret_value("AWSCURRENT", "").dict
        IN (/\ r.handler = "create_secret"
            /\ "get_random_password" \in Ops(r)
            /\ Untyped(template))
           => /\ r.pc \in {"create_put", "done"}
              /\ Get(r.current_dict, "connection_string", <<>>) = Unsupported
              /\ r.current_dict["password"] = r.random_pass
              /\ Done(r) => r.result \in {"ok", "ClientError"}
              /\ (Done(r) /\ r.result = "ClientError")
                 => HasEvent(r, "put_secret_value", "", "fail")
              /\ (Done(r) /\ r.result = "ok")
                 => /\ payload[r.token] = r.current_dict
                    /\ Get(payload[r.token], "connection_string", <<>>) = Unsupported
                    /\ payload[r.token]["password"] \in RandomPasswords
                    /\ "AWSPENDING" \in stages[r.token]

\* Stored with the sentinel: the type is missing in the template.
C23_Witness ==
    /\ Done(inv["w1"])
    /\ inv["w1"].handler = "create_secret"
    /\ inv["w1"].result = "ok"
    /\ HasEvent(inv["w1"], "put_secret_value", "", "ok")
    /\ "connection_string_type" \notin DOMAIN payload["v1"]
    /\ Get(payload[inv["w1"].token], "connection_string", <<>>) = Unsupported

\* The names of the parameters of a JDBC connection string.
JdbcParameters == {"user=", "password=", "ssl=true", "sslmode=", "schema="}

\* What the jdbc scenario asks of the string `cs` formatted from `d`: the
\* default port when the payload has none, no raw space left in it, and
\* every parameter set off from what precedes it by "?" or "&".
JdbcWellFormed(d, cs) ==
    /\ "port" \notin DOMAIN d => Occurs(<<d["host"], ":", "5432", "/">>, cs)
    /\ \A i \in DOMAIN cs : cs[i] # " "
    /\ \A i \in DOMAIN cs : cs[i] \in JdbcParameters => (i > 1 /\ cs[i - 1] \in {"?", "&"})

\* C24: for type jdbc and a password with a space, the formatted string has
\* the default port, the space encoded and the password parameter separated
\* from the next one, and both variants format the same string.
C24_JdbcScenario ==
    \A w \in Workers :
        LET r == inv[w]
        IN (/\ Done(r)
            /\ r.current_dict # None
            /\ Get(r.current_dict, "connection_string_type", "None") = "jdbc"
            /\ r.random_pass = pSpaced)
           => /\ JdbcWellFormed(payload["v1"], r.current_dict["connection_string"])
              /\ generate_connection_string("mariadb", payload["v1"], r.random_pass)
                   = generate_connection_string("postgres", payload["v1"], r.random_pass)

\* The same, for the PostgreSQL formatter alone.
JdbcScenarioPostgres ==
    \A w \in Workers :
        LET r == inv[w]
        IN (/\ Done(r)
            /\ engine = "postgres"
            /\ r.current_dict # None
            /\ Get(r.current_dict, "connection_string_type", "None") = "jdbc"
            /\ r.random_pass = pSpaced)
           => JdbcWellFormed(payload["v1"], r.current_dict["connection_string"])

\* The connection attempts of slot `slot` among the first n events of `log`.
AttemptsBefore(log, n, slot) ==
    {i \in 1..(n - 1) : log[i].op = "connect" /\ log[i].slot = slot}

\* The slot was tried before event n and no attempt with it opened a session.
FailedBefore(log, n, slot) ==
    /\ AttemptsBefore(log, n, slot) # {}
    /\ \A i \in AttemptsBefore(log, n, slot) : log[i].res = "fail"

\* The sessions opened in `log`, by position.
OpenedAt(log) == {i \in DOMAIN log : log[i].op = "connect" /\ log[i].res = "ok"}

\* C25: in setSecret AWSCURRENT is tried only after the attempt with
\* AWSPENDING failed, AWSPREVIOUS only after the attempt with AWSCURRENT
\* failed and with a AWSPREVIOUS payload at hand, and the password change
\* is executed over the first session that opened.
C25_AttemptOrder ==
    \A w \in Workers :
        LET r == inv[w]
        IN (Started(r) /\ r.step = "setSecret")
           => \A n \in DOMAIN r.log :
                 /\ (r.log[n].op = "connect" /\ r.log[n].slot = "AWSCURRENT")
                       => FailedBefore(r.log, n, "AWSPENDING")
                 /\ (r.log[n].op = "connect" /\ r.log[n].slot = "AWSPREVIOUS")
                       => /\ FailedBefore(r.log, n, "AWSCURRENT")
                          /\ r.previous_dict # None
                          /\ \E v \in Versions : "AWSPREVIOUS" \in stages[v]
                 /\ r.log[n].op = "execute"
                       => \E i \in OpenedAt(r.log) :
                             /\ i < n
                             /\ \A j \in OpenedAt(r.log) : i <= j
                             /\ r.log[n].slot = r.log[i].slot

\* setSecret changed the password over the session opened with AWSPREVIOUS,
\* after the attempts with AWSPENDING and AWSCURRENT failed.
C25_Witness ==
    \E w \in Workers :
        /\ Done(inv[w])
        /\ inv[w].step = "setSecret"
        /\ inv[w].result = "ok"
        /\ HasEvent(inv[w], "connect", "AWSPENDING", "fail")
        /\ HasEvent(inv[w], "connect", "AWSCURRENT", "fail")
        /\ HasEvent(inv[w], "execute", "AWSPREVIOUS", "ok")

\* set_secret was called and AWSPENDING of its token or AWSCURRENT is missing
\* or invalid in the vault.
LacksRequired(r) ==
    /\ r.handler = "set_secret"
    /\ \/ get_secret_dict("AWSPENDING", r.token).err # ""
       \/ get_secret_dict("AWSCURRENT", "").err # ""

BothRequired(e) ==
    \A w \in Workers :
        (engine = e /\ LacksRequired(inv[w]))
        => /\ ~\E i \in DOMAIN inv[w].log : inv[w].log[i].op = "connect"
           /\ Done(inv[w]) => inv[w].result # "ok"

BothRequiredMariaDB == BothRequired("mariadb")

\* C26: a setSecret invocation for which AWSPENDING or AWSCURRENT is missing
\* or invalid attempts no database connection and does not succeed.
C26_BothRequired == \A e \in Engines : BothRequired(e)

\* create_secret generated a password or called put_secret_value.
Generated(r) == Ops(r) \cap {"get_random_password", "put_secret_value"} # {}

\* A fetch of the invocation failed otherwise than by AWSPENDING not found.
OtherFailure(r) ==
    \E i \in DOMAIN r.fetched :
        /\ r.fetched[i].err # ""
        /\ ~(r.fetched[i].stage = "AWSPENDING"
             /\ r.fetched[i].err = "ResourceNotFoundException")

\* C27: create_secret generates a password and calls put_secret_value only
\* after AWSCURRENT was fetched and the fetch of AWSPENDING for the token
\* raised not-found; after any other failed fetch it ends with that error,
\* nothing generated and the vault as it was.
C27_GenerateOnlyOnNotFound ==
    \A w \in Workers :
        LET r == inv[w]
        IN r.handler = "create_secret"
           => /\ Generated(r)
                   => r.fetched = <<[stage |-> "AWSCURRENT", err |-> ""],
                                    [stage |-> "AWSPENDING",
                                     err |-> "ResourceNotFoundException"]>>
              /\ OtherFailure(r)
                   => /\ Done(r)
                      /\ r.result = r.fetched[Len(r.fetched)].err
                      /\ ~Generated(r)
                      /\ Get(payload, r.token, None) = r.before
                      /\ \A v \in Versions : stages[v] = Get(r.versions, v, {})

\* create_secret failed on an invalid or missing AWSCURRENT although a valid
\* AWSPENDING payload of the token was in the vault.
C27_Witness ==
    \E w \in Workers :
        /\ Done(inv[w])
        /\ inv[w].handler = "create_secret"
        /\ inv[w].fetched = <<[stage |-> "AWSCURRENT", err |-> "KeyError"]>>
        /\ get_secret_dict("AWSPENDING", inv[w].token).err = ""

\* create_secret failed on an AWSPENDING payload that exists and is invalid.
CreateInvalidPending ==
    \E w \in Workers :
        /\ Done(inv[w])
        /\ inv[w].handler = "create_secret"
        /\ inv[w].fetched = <<[stage |-> "AWSCURRENT", err |-> ""],
                              [stage |-> "AWSPENDING", err |-> "KeyError"]>>

\* create_secret failed on a missing AWSCURRENT.
CreateMissingCurrent ==
    \E w \in Workers :
        /\ Done(inv[w])
        /\ inv[w].handler = "create_secret"
        /\ inv[w].fetched = <<[stage |-> "AWSCURRENT", err |-> "ResourceNotFoundException"]>>

\* The connection attempts made with the payload of `slot`, in order.
SlotAttempts(r, slot) ==
    LET OfSlot(ev) == ev.op = "connect" /\ ev.slot = slot
    IN SelectSeq(r.log, OfSlot)

\* The attempts `a`, finished or not, are those of a payload whose ssl
\* setting is that of `d`.
AttemptsFollow(a, d, finished) ==
    /\ SslAsks(d) = "encrypted" => Len(a) <= 1 /\ \A i \in DOMAIN a : a[i].how = "ssl"
    /\ SslAsks(d) = "plain" => Len(a) <= 1 /\ \A i \in DOMAIN a : a[i].how = "plain"
    /\ SslAsks(d) = "fallback"
          => /\ Len(a) <= 2
             /\ a # <<>> => a[1].how = "ssl"
             /\ Len(a) = 2 => a[1].res = "fail" /\ a[2].how = "plain"
             /\ (finished /\ a # <<>> /\ a[1].res = "fail") => Len(a) = 2

PreviousUsesCurrentSsl ==
    \A w \in Workers :
        LET r == inv[w]
            a == SlotAttempts(r, "AWSPREVIOUS")
        IN (engine = "mariadb" /\ r.handler = "set_secret" /\ a # <<>>)
           => AttemptsFollow(a, r.current_dict,
                             ~(InResolver(r) /\ r.slot = "AWSPREVIOUS"))

SetLeavesPayloads ==
    [][\A w \in Workers :
          (engine = "mariadb" /\ inv[w].handler = "set_secret" /\ inv[w].pc # "done")
          => payload' = payload]_vars

\* C28: in the MariaDB set_secret the attempts with AWSPREVIOUS are those
\* that the ssl setting of AWSCURRENT asks for (encrypted with fallback when
\* AWSCURRENT has no ssl field), whatever ssl the stored AWSPREVIOUS payload
\* has, and no step of set_secret changes a payload in the vault.
C28_PreviousUsesCurrentSsl == []PreviousUsesCurrentSsl /\ SetLeavesPayloads

\* AWSPREVIOUS is stored with ssl false, AWSCURRENT has no ssl field, and the
\* attempt with AWSPREVIOUS went encrypted first and then unencrypted.
C28_Witness ==
    \E w \in Workers :
        LET r == inv[w]
            a == SlotAttempts(r, "AWSPREVIOUS")
            stored == get_secret_value("AWSPREVIOUS", "")
        IN /\ engine = "mariadb"
           /\ r.handler = "set_secret"
           /\ stored.err = ""
           /\ Get(stored.dict, "ssl", "") = "b:false"
           /\ "ssl" \notin DOMAIN r.current_dict
           /\ Len(a) = 2
           /\ a[1].how = "ssl"
           /\ a[2].how = "plain"

\* AWSCURRENT has ssl true, AWSPREVIOUS is stored without ssl, and the
\* attempt with AWSPREVIOUS went encrypted only.
PreviousTriedEncryptedOnly ==
    \E w \in Workers :
        LET r == inv[w]
            a == SlotAttempts(r, "AWSPREVIOUS")
            stored == get_secret_value("AWSPREVIOUS", "")
        IN /\ engine = "mariadb"
           /\ Done(r)
           /\ r.handler = "set_secret"
           /\ stored.err = ""
           /\ "ssl" \notin DOMAIN stored.dict
           /\ Get(r.current_dict, "ssl", "") = "b:true"
           /\ Len(a) = 1
           /\ a[1].how = "ssl"
           /\ a[1].res = "fail"

\* The workers whose createSecret invocation generated a password and
\* called put_secret_value.
Generators ==
    {w \in Workers : /\ inv[w].handler = "create_secret"
                     /\ {"get_random_password", "put_secret_value"} \subseteq Ops(inv[w])}

WrittenOnce ==
    [][\A v \in DOMAIN payload : v \in DOMAIN payload' /\ payload'[v] = payload[v]]_vars

\* Once set_secret succeeded, the live password is the AWSPENDING one of
\* the vault.
SetPasswordKept ==
    \A w \in Workers :
        (inv[w].handler = "set_secret" /\ Done(inv[w]) /\ inv[w].result = "ok")
        => /\ RotatingToken \in DOMAIN payload
           /\ dbPassword[<<"db1", "app">>] = payload[RotatingToken]["password"]

PasswordsOf(stage) ==
    {payload[v]["password"] : v \in {x \in DOMAIN payload : /\ stage \in stages[x]
                                                            /\ "password" \in DOMAIN payload[x]}}

\* The account the rotation is about: the one of the AWSCURRENT payload.
RotatedAccount ==
    LET cur == get_secret_value("AWSCURRENT", "").dict
    IN <<cur["host"], cur["username"]>>

RotationCompleted ==
    \E w \in Workers :
        /\ Done(inv[w])
        /\ inv[w].step = "finishSecret"
        /\ inv[w].result = "ok"
        /\ stages[RotatingToken] = {"AWSCURRENT"}
        /\ dbPassword[RotatedAccount] = payload[RotatingToken]["password"]
        /\ payload[RotatingToken]["password"] \in RandomPasswords

\* The token is labeled AWSCURRENT and the password of its payload is live.
RotationDone ==
    /\ "AWSCURRENT" \in stages[RotatingToken]
    /\ RotatingToken \in DOMAIN payload
    /\ CanLogin(payload[RotatingToken])

\* C31: when the scheduler re-invokes each failed step until it succeeds and
\* then invokes the next one, and vault calls and logins with a valid
\* credential do not fail for ever, the token is eventually labeled
\* AWSCURRENT with its password live.
C31_EventuallyCompletes == <>RotationDone

\* The AWSPREVIOUS payload in the vault names another host than AWSCURRENT.
ForeignPrevious ==
    LET prev == get_secret_value("AWSPREVIOUS", "")
        cur == get_secret_value("AWSCURRENT", "")
    IN /\ prev.err = ""
       /\ cur.err = ""
       /\ "host" \in DOMAIN prev.dict
       /\ prev.dict["host"] # cur.dict["host"]

\* The same, for the MariaDB variant alone, and for both variants on a
\* vault whose AWSPREVIOUS payload is not of another host.
CompletesMariaDB == (engine = "mariadb") => <>RotationDone
CompletesSameHost == (~ForeignPrevious) => <>RotationDone

\* The vault writes an invocation can log.
VaultWrites == {"put_secret_value", "move_current", "remove_pending"}

\* set_secret and test_secret log no vault write.
FrameOps ==
    \A w \in Workers :
        inv[w].handler \in {"set_secret", "test_secret"}
        => Ops(inv[w]) \cap VaultWrites = {}

\* What a step of a running handler leaves as it was.
FrameSteps ==
    [][\A w \in Workers :
          (inv'[w] # inv[w] /\ inv[w].pc # "done")
          => /\ inv[w].handler \in {"set_secret", "test_secret"}
                  => stages' = stages /\ payload' = payload
             /\ inv[w].handler \in {"test_secret", "finish_secret"}
                  => dbPassword' = dbPassword
             /\ \A v \in DOMAIN payload :
                   stages[v] \cap {"AWSCURRENT", "AWSPREVIOUS"} # {}
                   => v \in DOMAIN payload' /\ payload'[v] = payload[v]]_vars

\* C32: set_secret and test_secret never write to the vault, test_secret
\* and finish_secret never change a database password, and no step changes
\* the stored payload of a version labeled AWSCURRENT or AWSPREVIOUS.
C32_Frame == []FrameOps /\ FrameSteps

\* create_secret wrote the new payload under the token: its copy of the
\* template carries the new password, the stored AWSCURRENT payload the old.
C32_Witness ==
    \E w \in Workers :
        LET r == inv[w]
            cur == get_secret_value("AWSCURRENT", "")
        IN /\ Done(r)
           /\ r.handler = "create_secret"
           /\ HasEvent(r, "put_secret_value", "", "ok")
           /\ "AWSCURRENT" \notin stages[r.token]
           /\ payload[r.token] = r.current_dict
           /\ cur.err = ""
           /\ cur.dict["password"] = pOld
           /\ r.current_dict["password"] \in RandomPasswords

\* set_secret changed the live password and test_secret passed after it.
TestedAfterSet ==
    \E w \in Workers :
        /\ Done(inv[w])
        /\ inv[w].handler = "test_secret"
        /\ inv[w].result = "ok"
        /\ inv[w].chain = 3

====
